---------------------------- MODULE Spec2Model ----------------------------
(***************************************************************************)
(* Model of ui/src/modal.ts (the overlay controller: overlayStore, store,  *)
(* hide, toggle) and of the wallet view that follows it in the same file.  *)
(*                                                                         *)
(* JavaScript is single threaded: hide() and toggle() run to completion,   *)
(* but hide() calls out to the caller-supplied onHide callback BEFORE it   *)
(* clears the store, and that callback is arbitrary code which may return, *)
(* throw, or call hide()/toggle() again.  The model therefore keeps an     *)
(* explicit call stack and steps the frame on top of it.                   *)
(*                                                                         *)
(* writable, derived and get come from svelte/store.  The model keeps what *)
(* modal.ts relies on: the derived store's subscriber list and the value   *)
(* it holds, subscribe calling the new callback at once, set calling the   *)
(* registered callbacks in order with nothing catching what they throw.    *)
(* Subscriber callbacks do not themselves call hide(), toggle(),           *)
(* subscribe or unsubscribe.                                               *)
(***************************************************************************)
EXTENDS Integers, Sequences, FiniteSets, TLC

\* ----------------------------------------------------------------- bounds
\* Total number of hide()/toggle() calls issued by callers in one run.
MaxCalls == 5

\* Total number of provider requests issued by connect() in one run.
MaxAttempts == 3

\* Total number of subscriptions to the exported store in one run.
MaxSubscribers == 2

\* Total number of store.subscribe and hide()/toggle() calls in one run of the
\* controller together with subscribers of the exported store.
MaxStoreOps == 5

\* ------------------------------------------------------------ overlay data
\* Route identifiers are opaque strings chosen by the callers.
Routes == {"settings", "help"}

Openings == 1..MaxCalls

\* One identity per call of store.subscribe.
SubscriberIds == 1..MaxSubscribers

\* const doNothing = () => {}: the default onHide.  `opening` is a history tag
\* naming the toggle call the callback was passed to; the code does not read it.
doNothing(n) == [fn |-> "doNothing", opening |-> n]

\* A callback written by the caller of toggle: arbitrary code.
callerOnHide(n) == [fn |-> "caller", opening |-> n]

OnHide == [fn : {"doNothing", "caller"}, opening : Openings]

NoOnHide == [fn |-> "none", opening |-> 0]

\* { show: false }
Hidden == [show |-> FALSE]

\* { show: true, route, onHide }
Shown(route, onHide) == [show |-> TRUE, route |-> route, onHide |-> onHide]

\* type ModalOverlay
ModalOverlay == {Hidden} \cup [show : {TRUE}, route : Routes, onHide : OnHide]

VARIABLES
    overlayStore,   \* value held by writable overlayStore
    stack,          \* call stack, top is the last element
    throwing,       \* an exception is propagating up the stack
    calls,          \* hide()/toggle() calls issued so far
    invoked,        \* history: per opening, how often its onHide was invoked
    replacedAt,     \* history: invoked[n] when opening n was replaced, else -1
    opened,         \* history: the route toggle call n stored, "" if it stored none
    last            \* history: the hide()/toggle() call that finished last

overlayVars ==
    <<overlayStore, stack, throwing, calls, invoked, replacedAt, opened, last>>

VARIABLES
    subscribers,    \* callbacks registered on the exported store, in order
    derivedValue,   \* value the derived store holds since its last recomputation
    nextSubscriber, \* subscriptions made so far
    delivered,      \* history: per subscriber, the values it was called with
    subscribedAt,   \* history: <<overlayStore>> as it was when s subscribed
    unsubscribedAt  \* history: Len(delivered[s]) when s unsubscribed, else -1

storeVars ==
    <<subscribers, derivedValue, nextSubscriber, delivered, subscribedAt,
      unsubscribedAt>>

\* ------------------------------------------------------------- wallet data
\* enum Status of src/wallet, as the view tests it.
NotConnected == "NotConnected"
Connecting == "Connecting"
Connected == "Connected"

Accounts == {"0xABC", "0xDEF"}
Networks == {"testnet", "mainnet"}
Environments == {"Testing", "Production"}

\* supportedNetwork(environment) of src/ethereum
supportedNetwork(environment) ==
    IF environment = "Testing" THEN "testnet" ELSE "mainnet"

NotConnectedState == [status |-> NotConnected]
ConnectingState == [status |-> Connecting]
ConnectedState(account, network) ==
    [status |-> Connected,
     connected |-> [account |-> account, network |-> network]]

WalletState ==
    {NotConnectedState, ConnectingState} \cup
    [status : {Connected}, connected : [account : Accounts, network : Networks]]

VARIABLES
    wallet,               \* $wallet: value of the wallet's state store
    ethereumEnvironment,  \* $ethereumEnvironment: the selected environment
    nextToken,            \* tokens handed to provider requests so far
    current,              \* token of the attempt in progress, 0 if none
    inflight,             \* tokens of provider requests not yet resolved
    cancelled,            \* history: tokens whose attempt disconnect() cancelled
    connectedIn,          \* history: the environment selected when last Connected
    wlast                 \* history: the wallet operation that finished last

walletVars ==
    <<wallet, ethereumEnvironment, nextToken, current, inflight, cancelled,
      connectedIn, wlast>>

vars == <<overlayVars, storeVars, walletVars>>

\* derived(overlayStore, $store => $store): the projection function
Projection(value) == value

\* Mutant of GetStore: the derived store hands out the value it holds without
\* recomputing it when it is started.
GetStore_Cached == derivedValue

\* get(store): subscribes to the derived store, takes the value the
\* subscription is called with, and unsubscribes.  A derived store nobody is
\* subscribed to is started by the subscription: it subscribes to
\* overlayStore and recomputes the projection of the current value.  One that
\* has subscribers hands out the value it holds.
GetStore ==
    IF subscribers = <<>> THEN Projection(overlayStore) ELSE derivedValue

NoCall ==
    [op |-> "none", route |-> "", onHide |-> NoOnHide, pre |-> Hidden,
     post |-> Hidden, outcome |-> "none", delta |-> [n \in Openings |-> 0],
     depth |-> 0, supplied |-> FALSE, at |-> "none", calls0 |-> 0, calls1 |-> 0,
     ran |-> {}, before |-> Hidden, subscribers |-> <<>>,
     news |-> [s \in SubscriberIds |-> <<>>]]

NoWalletOp ==
    [op |-> "none", via |-> "none", token |-> 0, pre |-> NotConnectedState,
     post |-> NotConnectedState, issued |-> {}, fault |-> FALSE]

Init ==
    /\ wallet = NotConnectedState
    /\ ethereumEnvironment = "Testing"
    /\ nextToken = 0
    /\ current = 0
    /\ inflight = {}
    /\ cancelled = {}
    /\ connectedIn = ""
    /\ wlast = NoWalletOp
    /\ overlayStore = Hidden
    /\ stack = <<>>
    /\ throwing = FALSE
    /\ calls = 0
    /\ invoked = [n \in Openings |-> 0]
    /\ replacedAt = [n \in Openings |-> -1]
    /\ opened = [n \in Openings |-> ""]
    /\ subscribers = <<>>
    /\ derivedValue = Projection(Hidden)
    /\ nextSubscriber = 0
    /\ delivered = [s \in SubscriberIds |-> <<>>]
    /\ subscribedAt = [s \in SubscriberIds |-> <<>>]
    /\ unsubscribedAt = [s \in SubscriberIds |-> -1]
    /\ last = NoCall

Top == stack[Len(stack)]

Pop == SubSeq(stack, 1, Len(stack) - 1)

SetTop(frame) == [stack EXCEPT ![Len(stack)] = frame]

\* A function is entered.  Beside its arguments and its local `modal`, the
\* frame keeps history: the store, the counters and the deliveries as they
\* were on entry (pre, inv0, calls0, del0), whether toggle was given a
\* callback (supplied), the openings whose callback this call invoked itself
\* (ran), and whether a running callback has called hide/toggle (called).
Frame(op, route, onHide) ==
    [op |-> op, pc |-> "read", route |-> route, onHide |-> onHide,
     modal |-> Hidden, pre |-> overlayStore, inv0 |-> invoked,
     calls0 |-> calls, del0 |-> delivered, supplied |-> FALSE,
     ran |-> {}, called |-> FALSE]

\* The stack with the running callback, if any, marked as having made a call.
MarkCaller ==
    IF stack = <<>> THEN stack ELSE SetTop([Top EXCEPT !.called = TRUE])

\* What a finished call leaves in `last`: `after` is `delivered` as the call
\* leaves it, `news` what each subscriber was called with during the call,
\* `before` the value the store held when the call ended or did its last set,
\* calls0 and calls1 the number of calls issued before it began and ended.
Finished(frame, post, after, outcome) ==
    [op |-> frame.op, route |-> frame.route, onHide |-> frame.onHide,
     pre |-> frame.pre, post |-> post, outcome |-> outcome,
     delta |-> [n \in Openings |-> invoked[n] - frame.inv0[n]],
     depth |-> Len(stack), supplied |-> frame.supplied, at |-> frame.pc,
     calls0 |-> frame.calls0, calls1 |-> calls, ran |-> frame.ran,
     before |-> overlayStore,
     subscribers |-> subscribers,
     news |-> [s \in SubscriberIds |->
                  SubSeq(after[s], Len(frame.del0[s]) + 1, Len(after[s]))]]

\* A subscriber's callback is arbitrary code and may throw when it is called:
\* the callback whose throwing ends a notification round is none (0) or the
\* i-th registered one.
Throwers == 0..Len(subscribers)

\* overlayStore.set(value), in which the k-th subscriber's callback throws
\* (k = 0: none does).  The writable takes the value first.  If the derived
\* store is running it is overlayStore's one subscriber: it recomputes its
\* value and calls its own subscribers in registration order, and nothing
\* catches what one of them throws, so those after it are not called.
StoreSet(value, k) ==
    /\ overlayStore' = value
    /\ IF subscribers = <<>>
       THEN UNCHANGED <<derivedValue, delivered>>
       ELSE /\ derivedValue' = Projection(value)
            /\ delivered' =
                 [s \in SubscriberIds |->
                    IF \E i \in 1..Len(subscribers) :
                          subscribers[i] = s /\ (k = 0 \/ i <= k)
                    THEN Append(delivered[s], derivedValue')
                    ELSE delivered[s]]

\* Code that may call the exported functions: the UI (empty stack) or a
\* caller-written onHide callback that is running.
CallerRunning ==
    /\ ~throwing
    /\ \/ stack = <<>>
       \/ /\ stack # <<>>
          /\ Top.op = "onHide"
          /\ Top.onHide.fn = "caller"


\* ------------------------------------------------------------------ hide()
\* export const hide = (): void => { ... }: a caller enters hide().
CallHide ==
    /\ CallerRunning
    /\ calls < MaxCalls
    /\ calls' = calls + 1
    /\ stack' = Append(MarkCaller, Frame("hide", "", NoOnHide))
    /\ UNCHANGED walletVars
    /\ UNCHANGED storeVars
    /\ UNCHANGED <<overlayStore, throwing, invoked, replacedAt, opened, last>>

\* Mutant of HideInvokes: the guard on modal.show is dropped.
HideInvokes_Unguarded(modal) == TRUE

\* if (modal.show)
HideInvokes(modal) == modal.show

\* const modal = get(store); if (modal.show) ...
HideRead ==
    /\ ~throwing
    /\ stack # <<>>
    /\ Top.op = "hide"
    /\ Top.pc = "read"
    /\ LET modal == GetStore
       IN  stack' = SetTop([Top EXCEPT !.modal = modal,
                                       !.pc = IF HideInvokes(modal)
                                              THEN "invoke" ELSE "set"])
    /\ UNCHANGED walletVars
    /\ UNCHANGED storeVars
    /\ UNCHANGED <<overlayStore, throwing, calls, invoked, replacedAt, opened, last>>

\* Mutant of HideBeforeInvoke: the store is cleared before the callback is
\* called.
HideBeforeInvoke_Clears == Hidden

\* hide() runs no statement between reading the store and calling
\* modal.onHide(): the callback is entered with the store as it was.
HideBeforeInvoke == overlayStore

\* modal.onHide(): control passes to the callback; hide() resumes at the set.
\* Calling the missing onHide of { show: false } is a TypeError.
HideInvoke ==
    /\ ~throwing
    /\ stack # <<>>
    /\ Top.op = "hide"
    /\ Top.pc = "invoke"
    /\ IF Top.modal.show
       THEN /\ stack' = Append(SetTop([Top EXCEPT
                                          !.pc = "set",
                                          !.ran = @ \cup {Top.modal.onHide.opening}]),
                               Frame("onHide", "", Top.modal.onHide))
            /\ invoked' = [invoked EXCEPT ![Top.modal.onHide.opening] = @ + 1]
            /\ UNCHANGED throwing
       ELSE /\ stack' = SetTop([Top EXCEPT !.pc = "set"])
            /\ throwing' = TRUE
            /\ UNCHANGED invoked
    /\ overlayStore' = HideBeforeInvoke
    /\ UNCHANGED walletVars
    /\ UNCHANGED storeVars
    /\ UNCHANGED <<calls, replacedAt, opened, last>>

\* Mutant of HideValue: hide() clears the store only if it still holds the
\* value hide() read, and leaves an overlay opened meanwhile in place.
HideValue_KeepsReopened ==
    IF overlayStore = Top.modal THEN Hidden ELSE overlayStore

\* The value hide() stores: overlayStore.set({ show: false })
HideValue == Hidden

\* overlayStore.set({ show: false }); and hide() returns.
HideSet ==
    /\ ~throwing
    /\ stack # <<>>
    /\ Top.op = "hide"
    /\ Top.pc = "set"
    /\ \E k \in Throwers :
         /\ StoreSet(HideValue, k)
         /\ IF k = 0
            THEN /\ last' = Finished(Top, overlayStore', delivered', "returned")
                 /\ stack' = Pop
                 /\ UNCHANGED throwing
            ELSE /\ throwing' = TRUE
                 /\ stack' = SetTop([Top EXCEPT !.pc = "threw"])
                 /\ UNCHANGED last
    /\ UNCHANGED walletVars
    /\ UNCHANGED <<subscribers, nextSubscriber, subscribedAt, unsubscribedAt>>
    /\ UNCHANGED <<calls, invoked, replacedAt, opened>>

\* ---------------------------------------------------------------- toggle()
\* Mutant of ToggleOnHide: the parameter has no default, an omitted callback
\* is treated like one written by the caller.
ToggleOnHide_NoDefault(supplied, n) == callerOnHide(n)

\* onHide: OnHide = doNothing: the callback toggle uses for call number n.
ToggleOnHide(supplied, n) == IF supplied THEN callerOnHide(n) ELSE doNothing(n)

\* export const toggle = (route, onHide = doNothing): void => { ... }
CallToggle ==
    /\ CallerRunning
    /\ calls < MaxCalls
    /\ calls' = calls + 1
    /\ \E route \in Routes, supplied \in BOOLEAN :
         stack' = Append(MarkCaller,
                         [Frame("toggle", route, ToggleOnHide(supplied, calls'))
                             EXCEPT !.supplied = supplied])
    /\ UNCHANGED walletVars
    /\ UNCHANGED storeVars
    /\ UNCHANGED <<overlayStore, throwing, invoked, replacedAt, opened, last>>

\* Mutant of ToggleCloses: the route comparison is dropped, so that switching
\* to another route closes the shown overlay first.
ToggleCloses_AnyRoute(modal, route) == modal.show

\* if (modal.show && modal.route === route)
ToggleCloses(modal, route) == modal.show /\ modal.route = route

\* const modal = get(store); if (modal.show && modal.route === route) ...
ToggleRead ==
    /\ ~throwing
    /\ stack # <<>>
    /\ Top.op = "toggle"
    /\ Top.pc = "read"
    /\ LET modal == GetStore
       IN  stack' = SetTop([Top EXCEPT !.modal = modal,
                                       !.pc = IF ToggleCloses(modal, Top.route)
                                              THEN "hide" ELSE "set"])
    /\ UNCHANGED walletVars
    /\ UNCHANGED storeVars
    /\ UNCHANGED <<overlayStore, throwing, calls, invoked, replacedAt, opened, last>>

\* hide(); the nested call made by toggle on the same route.
ToggleHide ==
    /\ ~throwing
    /\ stack # <<>>
    /\ Top.op = "toggle"
    /\ Top.pc = "hide"
    /\ stack' = Append(SetTop([Top EXCEPT !.pc = "return"]),
                       Frame("hide", "", NoOnHide))
    /\ UNCHANGED walletVars
    /\ UNCHANGED storeVars
    /\ UNCHANGED <<overlayStore, throwing, calls, invoked, replacedAt, opened, last>>

\* return; after the nested hide()
ToggleReturn ==
    /\ ~throwing
    /\ stack # <<>>
    /\ Top.op = "toggle"
    /\ Top.pc = "return"
    /\ last' = Finished(Top, overlayStore, delivered, "returned")
    /\ stack' = Pop
    /\ UNCHANGED walletVars
    /\ UNCHANGED storeVars
    /\ UNCHANGED <<overlayStore, throwing, calls, invoked, replacedAt, opened>>

\* Mutant of ToggleValue: the callback is left out of the stored value.
ToggleValue_NoOnHide(route, onHide) == [show |-> TRUE, route |-> route]

\* The value toggle() stores: { show: true, route, onHide }
ToggleValue(route, onHide) == Shown(route, onHide)

\* overlayStore.set({ show: true, route, onHide }); and toggle() returns.
\* History: an overlay that was shown is replaced without being hidden.
ToggleSet ==
    /\ ~throwing
    /\ stack # <<>>
    /\ Top.op = "toggle"
    /\ Top.pc = "set"
    /\ opened' = [opened EXCEPT ![Top.onHide.opening] = Top.route]
    /\ replacedAt' = IF overlayStore.show
                     THEN [replacedAt EXCEPT ![overlayStore.onHide.opening] =
                                                 invoked[overlayStore.onHide.opening]]
                     ELSE replacedAt
    /\ \E k \in Throwers :
         /\ StoreSet(ToggleValue(Top.route, Top.onHide), k)
         /\ IF k = 0
            THEN /\ last' = Finished(Top, overlayStore', delivered', "returned")
                 /\ stack' = Pop
                 /\ UNCHANGED throwing
            ELSE /\ throwing' = TRUE
                 /\ stack' = SetTop([Top EXCEPT !.pc = "threw"])
                 /\ UNCHANGED last
    /\ UNCHANGED walletVars
    /\ UNCHANGED <<subscribers, nextSubscriber, subscribedAt, unsubscribedAt>>
    /\ UNCHANGED <<calls, invoked>>

\* ------------------------------------------------------- the onHide callback
\* The callback returns to hide().
OnHideReturn ==
    /\ ~throwing
    /\ stack # <<>>
    /\ Top.op = "onHide"
    /\ stack' = Pop
    /\ UNCHANGED walletVars
    /\ UNCHANGED storeVars
    /\ UNCHANGED <<overlayStore, throwing, calls, invoked, replacedAt, opened, last>>

\* A caller-written callback throws (doNothing has an empty body).
OnHideThrow ==
    /\ ~throwing
    /\ stack # <<>>
    /\ Top.op = "onHide"
    /\ Top.onHide.fn = "caller"
    /\ throwing' = TRUE
    /\ stack' = Pop
    /\ UNCHANGED walletVars
    /\ UNCHANGED storeVars
    /\ UNCHANGED <<overlayStore, calls, invoked, replacedAt, opened, last>>

\* ------------------------------------------------------ exception unwinding
\* hide() and toggle() have no try/catch/finally: the exception leaves them.
Unwind ==
    /\ throwing
    /\ stack # <<>>
    /\ Top.op \in {"hide", "toggle"}
    /\ last' = Finished(Top, overlayStore, delivered, "threw")
    /\ stack' = Pop
    /\ UNCHANGED walletVars
    /\ UNCHANGED storeVars
    /\ UNCHANGED <<overlayStore, throwing, calls, invoked, replacedAt, opened>>

\* A running caller-written callback whose own hide()/toggle() call threw
\* either catches the exception and goes on, or lets it through.
OnHideCatch ==
    /\ throwing
    /\ stack # <<>>
    /\ Top.op = "onHide"
    /\ throwing' = FALSE
    /\ UNCHANGED walletVars
    /\ UNCHANGED storeVars
    /\ UNCHANGED <<overlayStore, stack, calls, invoked, replacedAt, opened, last>>

OnHidePropagate ==
    /\ throwing
    /\ stack # <<>>
    /\ Top.op = "onHide"
    /\ stack' = Pop
    /\ UNCHANGED walletVars
    /\ UNCHANGED storeVars
    /\ UNCHANGED <<overlayStore, throwing, calls, invoked, replacedAt, opened, last>>

\* The exception reaches the event loop, which reports it and goes on.
Uncaught ==
    /\ throwing
    /\ stack = <<>>
    /\ throwing' = FALSE
    /\ UNCHANGED walletVars
    /\ UNCHANGED storeVars
    /\ UNCHANGED <<overlayStore, stack, calls, invoked, replacedAt, opened, last>>

\* ------------------------------------------------- store.subscribe(callback)
\* Mutant of InitialRun: subscribe registers the callback without calling it.
InitialRun_None(value) == <<>>

\* subscribe calls the new callback at once with the store's value: what the
\* new subscriber has been called with when subscribe returns.
InitialRun(value) == <<value>>

\* A component or other consumer subscribes to the exported store.  The first
\* subscription starts the derived store, which recomputes its value from
\* overlayStore; the callback is called with the derived store's value.
Subscribe ==
    /\ stack = <<>>
    /\ ~throwing
    /\ nextSubscriber < MaxSubscribers
    /\ nextSubscriber' = nextSubscriber + 1
    /\ subscribers' = Append(subscribers, nextSubscriber')
    /\ derivedValue' = GetStore
    /\ delivered' = [delivered EXCEPT ![nextSubscriber'] = InitialRun(derivedValue')]
    /\ subscribedAt' = [subscribedAt EXCEPT ![nextSubscriber'] = <<overlayStore>>]
    /\ UNCHANGED unsubscribedAt
    /\ UNCHANGED overlayVars
    /\ UNCHANGED walletVars

\* Mutant of Remove: unsubscribing leaves the callback registered.
Remove_None(registered, s) == registered

\* subscribers.splice(index, 1): the registered callbacks without s.
Remove(registered, s) == SelectSeq(registered, LAMBDA x : x # s)

\* A subscriber calls the unsubscribe function subscribe returned.  When the
\* last one leaves, the derived store stops: it unsubscribes from overlayStore
\* and keeps the value it held.
Unsubscribe ==
    /\ stack = <<>>
    /\ ~throwing
    /\ \E i \in 1..Len(subscribers) :
         /\ subscribers' = Remove(subscribers, subscribers[i])
         /\ unsubscribedAt' = [unsubscribedAt EXCEPT ![subscribers[i]] =
                                                       Len(delivered[subscribers[i]])]
    /\ UNCHANGED <<derivedValue, nextSubscriber, delivered, subscribedAt>>
    /\ UNCHANGED overlayVars
    /\ UNCHANGED walletVars

\* ----------------------------------------------------------- the wallet view
\* Mutant of ViewReads: the account and the network are read in every state.
ViewReads_Unconditional(w) ==
    {"status", "connected.account", "connected.network"}

\* The fields of w the template reads: w.status in the {#if}, and inside the
\* Connected branch w.connected.account and w.connected.network.
ViewReads(w) ==
    IF w.status = Connected
    THEN {"status", "connected.account", "connected.network"}
    ELSE {"status"}

\* The fields a wallet state value has.
WalletFields(w) ==
    {"status"} \cup
    (IF "connected" \in DOMAIN w
     THEN {"connected.account", "connected.network"} ELSE {})

\* Mutant of View: the network is compared with that of the environment that
\* was selected when the wallet connected.
View_AtConnection(w, environment) ==
    IF w.status = Connected
    THEN [walletPanel |-> TRUE,
          account |-> w.connected.account,
          pool |-> supportedNetwork(connectedIn) = w.connected.network,
          wrongNetwork |-> supportedNetwork(connectedIn) # w.connected.network,
          expectedNetwork |-> supportedNetwork(connectedIn),
          connectWallet |-> FALSE,
          connecting |-> FALSE]
    ELSE [walletPanel |-> FALSE,
          account |-> "",
          pool |-> FALSE,
          wrongNetwork |-> FALSE,
          expectedNetwork |-> "",
          connectWallet |-> TRUE,
          connecting |-> w.status = Connecting]

\* The template: {#if w.status === Status.Connected} ... {:else} ... {/if}.
\* What is rendered for wallet state w under the selected environment.
View(w, environment) ==
    IF w.status = Connected
    THEN [walletPanel |-> TRUE,
          account |-> w.connected.account,
          pool |-> supportedNetwork(environment) = w.connected.network,
          wrongNetwork |-> supportedNetwork(environment) # w.connected.network,
          expectedNetwork |-> supportedNetwork(environment),
          connectWallet |-> FALSE,
          connecting |-> FALSE]
    ELSE [walletPanel |-> FALSE,
          account |-> "",
          pool |-> FALSE,
          wrongNetwork |-> FALSE,
          expectedNetwork |-> "",
          connectWallet |-> TRUE,
          connecting |-> w.status = Connecting]

Rendered == View(wallet, ethereumEnvironment)

\* ------------------------------------------------------ wallet controller
\* Mutant of ConnectApplies: connect() starts an attempt from any state.
ConnectApplies_Always(w) == TRUE

\* connect() is valid from NotConnected and a no-op otherwise.
ConnectApplies(w) == w.status = NotConnected

\* wallet.connect(): moves to Connecting and puts one provider request in
\* flight under a fresh token; the call itself returns before it resolves.
ConnectCall(via) ==
    /\ stack = <<>>
    /\ ~throwing
    /\ IF ConnectApplies(wallet)
       THEN /\ nextToken < MaxAttempts
            /\ nextToken' = nextToken + 1
            /\ current' = nextToken'
            /\ inflight' = inflight \cup {nextToken'}
            /\ wallet' = ConnectingState
       ELSE UNCHANGED <<nextToken, current, inflight, wallet>>
    /\ wlast' = [op |-> "connect", via |-> via, token |-> current',
                 pre |-> wallet, post |-> wallet',
                 issued |-> inflight' \ inflight, fault |-> FALSE]
    /\ UNCHANGED <<ethereumEnvironment, cancelled, connectedIn>>
    /\ UNCHANGED overlayVars
    /\ UNCHANGED storeVars

\* <ConnectWallet onConnect={wallet.connect} .../>: the rendered prompt calls
\* connect().
OnConnect ==
    /\ Rendered.connectWallet
    /\ ConnectCall("view")

\* connect() called by any other holder of the wallet.
Connect == ConnectCall("direct")

\* Mutant of DisconnectApplies: disconnect() only acts on a Connected wallet.
DisconnectApplies_ConnectedOnly(w) == w.status = Connected

\* disconnect() is valid from Connected or Connecting, a no-op otherwise.
DisconnectApplies(w) == w.status # NotConnected

\* wallet.disconnect(): moves to NotConnected at once and drops the attempt
\* in progress, whose provider request stays in flight.
DisconnectCall(via) ==
    /\ stack = <<>>
    /\ ~throwing
    /\ IF DisconnectApplies(wallet)
       THEN /\ wallet' = NotConnectedState
            /\ current' = 0
            /\ cancelled' = IF wallet.status = Connecting
                            THEN cancelled \cup {current} ELSE cancelled
       ELSE UNCHANGED <<wallet, current, cancelled>>
    /\ wlast' = [op |-> "disconnect", via |-> via, token |-> current,
                 pre |-> wallet, post |-> wallet', issued |-> {},
                 fault |-> FALSE]
    /\ UNCHANGED <<ethereumEnvironment, nextToken, inflight, connectedIn>>
    /\ UNCHANGED overlayVars
    /\ UNCHANGED storeVars

\* <WalletPanel onDisconnect={wallet.disconnect} .../>: the rendered panel
\* calls disconnect().
OnDisconnect ==
    /\ Rendered.walletPanel
    /\ DisconnectCall("view")

\* disconnect() called by any other holder of the wallet.
Disconnect == DisconnectCall("direct")

\* Mutant of ResolutionApplies: every resolution is applied, whatever attempt
\* it belongs to.
ResolutionApplies_Unguarded(token) == TRUE

\* A resolution is applied only if it belongs to the attempt in progress.
ResolutionApplies(token) == wallet.status = Connecting /\ token = current

\* The provider request of some attempt resolves with an account and a
\* network: Connecting -> Connected, unless the resolution is stale.
ProviderSuccess ==
    /\ stack = <<>>
    /\ ~throwing
    /\ \E token \in inflight, account \in Accounts, network \in Networks :
         /\ inflight' = inflight \ {token}
         /\ IF ResolutionApplies(token)
            THEN /\ wallet' = ConnectedState(account, network)
                 /\ current' = 0
                 /\ connectedIn' = ethereumEnvironment
            ELSE UNCHANGED <<wallet, current, connectedIn>>
         /\ wlast' = [op |-> "success", via |-> "provider", token |-> token,
                      pre |-> wallet, post |-> wallet', issued |-> {},
                      fault |-> FALSE]
    /\ UNCHANGED <<ethereumEnvironment, nextToken, cancelled>>
    /\ UNCHANGED overlayVars
    /\ UNCHANGED storeVars

\* The provider request of some attempt fails or is rejected by the user:
\* Connecting -> NotConnected, unless the resolution is stale.
ProviderFailure ==
    /\ stack = <<>>
    /\ ~throwing
    /\ \E token \in inflight :
         /\ inflight' = inflight \ {token}
         /\ IF ResolutionApplies(token)
            THEN /\ wallet' = NotConnectedState
                 /\ current' = 0
            ELSE UNCHANGED <<wallet, current>>
         /\ UNCHANGED connectedIn
         /\ wlast' = [op |-> "failure", via |-> "provider", token |-> token,
                      pre |-> wallet, post |-> wallet', issued |-> {},
                      fault |-> FALSE]
    /\ UNCHANGED <<ethereumEnvironment, nextToken, cancelled>>
    /\ UNCHANGED overlayVars
    /\ UNCHANGED storeVars

\* The user selects another network environment.
SelectEnvironment ==
    /\ stack = <<>>
    /\ ~throwing
    /\ \E environment \in Environments \ {ethereumEnvironment} :
         ethereumEnvironment' = environment
    /\ UNCHANGED <<wallet, nextToken, current, inflight, cancelled,
                   connectedIn, wlast>>
    /\ UNCHANGED overlayVars
    /\ UNCHANGED storeVars

WalletNext ==
    \/ OnConnect
    \/ Connect
    \/ OnDisconnect
    \/ Disconnect
    \/ ProviderSuccess
    \/ ProviderFailure
    \/ SelectEnvironment

OverlayNext ==
    \/ CallHide
    \/ HideRead
    \/ HideInvoke
    \/ HideSet
    \/ CallToggle
    \/ ToggleRead
    \/ ToggleHide
    \/ ToggleReturn
    \/ ToggleSet
    \/ OnHideReturn
    \/ OnHideThrow
    \/ Unwind
    \/ OnHideCatch
    \/ OnHidePropagate
    \/ Uncaught

Next == OverlayNext \/ Subscribe \/ Unsubscribe \/ WalletNext

\* The whole program.  The overlay controller and the wallet share no state,
\* so each is checked under its own specification below; their product is the
\* state space of Spec.
Spec == Init /\ [][Next]_vars

\* The overlay controller on its own.
OverlaySpec == Init /\ [][OverlayNext]_vars

\* The overlay controller with subscribers of the exported store.
StoreNext ==
    \/ calls + nextSubscriber < MaxStoreOps /\ CallHide
    \/ HideRead
    \/ HideInvoke
    \/ HideSet
    \/ calls + nextSubscriber < MaxStoreOps /\ CallToggle
    \/ ToggleRead
    \/ ToggleHide
    \/ ToggleReturn
    \/ ToggleSet
    \/ OnHideReturn
    \/ OnHideThrow
    \/ Unwind
    \/ OnHideCatch
    \/ OnHidePropagate
    \/ Uncaught
    \/ calls + nextSubscriber < MaxStoreOps /\ Subscribe
    \/ Unsubscribe

StoreSpec == Init /\ [][StoreNext]_vars

\* The wallet and its view on their own.
WalletSpec == Init /\ [][WalletNext]_vars


\* ==================================================================== claims
\* The finished call was toggle(r) entered while Shown(r) was stored.
ToggleOnSameRoute ==
    /\ last.op = "toggle"
    /\ last.pre.show
    /\ last.pre.route = last.route

\* The finished call was toggle(r) entered while Shown(r2), r2 # r, was stored.
ToggleOnOtherRoute ==
    /\ last.op = "toggle"
    /\ last.pre.show
    /\ last.pre.route # last.route

\* The finished call was hide() entered while an overlay was shown.
HideOnShown == last.op = "hide" /\ last.pre.show

\* The finished call was hide() entered while no overlay was shown.
HideOnHidden == last.op = "hide" /\ ~last.pre.show

\* C1: toggle(r) called on Shown(r) with callback cb leaves the overlay Hidden
\* and has invoked cb exactly once during the call.
C1_ToggleSameRouteHidesOnce ==
    ToggleOnSameRoute =>
        /\ last.post = Hidden
        /\ last.delta[last.pre.onHide.opening] = 1

\* C2: toggle(r, cb) called on Shown(r2), r # r2, returns with Shown(r)
\* carrying cb stored, has not invoked the old callback during the call, and
\* no later call invokes the callback of an overlay that was replaced.
C2_ToggleOtherRouteReplaces ==
    /\ ToggleOnOtherRoute =>
           /\ last.outcome = "returned"
           /\ last.post = Shown(last.route, last.onHide)
           /\ last.delta[last.pre.onHide.opening] = 0
    /\ \A n \in Openings :
           replacedAt[n] # -1 => invoked[n] = replacedAt[n]

\* C2 witness: an overlay was replaced and a later hide() of a shown overlay
\* has run to its end.
C2_Witness ==
    /\ \E n \in Openings : replacedAt[n] # -1
    /\ HideOnShown
    /\ last.outcome = "returned"
    /\ stack = <<>>

\* C3: hide() called on Shown(r) with callback cb invokes cb exactly once and
\* leaves the overlay Hidden.
C3_HideInvokesOnceAndHides ==
    HideOnShown =>
        /\ last.post = Hidden
        /\ last.delta[last.pre.onHide.opening] = 1

\* C4: hide() called while the overlay is Hidden is a no-op: it returns
\* normally, the store holds Hidden throughout and afterwards, and no onHide
\* callback of any opening is invoked.
C4_HideOnHiddenIsNoOp ==
    /\ HideOnHidden =>
           /\ last.outcome = "returned"
           /\ last.post = Hidden
           /\ \A n \in Openings : last.delta[n] = 0
    /\ (stack # <<>> /\ Top.op = "hide" /\ ~Top.pre.show) =>
           /\ ~throwing
           /\ overlayStore = Hidden
           /\ invoked = Top.inv0

\* C4 witness: hide() on Hidden has finished after an earlier overlay's
\* callback had been invoked.
C4_Witness ==
    /\ HideOnHidden
    /\ \E n \in Openings : invoked[n] > 0

\* C5: in every state the store holds one value that is either Hidden with no
\* payload or Shown with one route and one onHide callback, and so does every
\* copy of it that hide() or toggle() has read.
C5_OverlayIsHiddenOrShown ==
    /\ overlayStore \in ModalOverlay
    /\ DOMAIN overlayStore = IF overlayStore.show
                             THEN {"show", "route", "onHide"} ELSE {"show"}
    /\ \A i \in 1..Len(stack) : stack[i].modal \in ModalOverlay

\* C5 witness: an overlay is shown after a hide() and a replacing toggle().
C5_Witness ==
    /\ overlayStore.show
    /\ \E n \in Openings : replacedAt[n] # -1
    /\ \E n \in Openings : invoked[n] > 0

\* C6: the onHide callback of an opening is invoked at most once, re-entrant
\* calls included.
C6_OnHideAtMostOnce == \A n \in Openings : invoked[n] <= 1

\* C7: a hide(), or a toggle() on the shown route, that ends because the
\* onHide callback threw still leaves the overlay Hidden.
C7_HiddenEvenIfOnHideThrows ==
    ((HideOnShown \/ ToggleOnSameRoute) /\ last.outcome = "threw") =>
        last.post = Hidden

\* The edges of the wallet state machine, each with the operation that takes it.
WalletEdges ==
    {<<NotConnected, Connecting, "connect">>,
     <<Connecting, Connected, "success">>,
     <<Connecting, NotConnected, "failure">>,
     <<Connecting, NotConnected, "disconnect">>,
     <<Connected, NotConnected, "disconnect">>}

\* C8: every change of the wallet state follows an edge of the state machine
\* (so Connected is only entered from Connecting), connect() from NotConnected
\* yields Connecting, and disconnect() from Connecting or Connected yields
\* NotConnected.
C8_WalletFollowsEdges ==
    /\ [][wallet' # wallet =>
            <<wallet.status, wallet'.status, wlast'.op>> \in WalletEdges]_vars
    /\ []((wlast.op = "connect" /\ wlast.pre.status = NotConnected) =>
            wlast.post = ConnectingState)
    /\ []((wlast.op = "disconnect" /\ wlast.pre.status # NotConnected) =>
            wlast.post = NotConnectedState)

\* C8 witness: a Connected wallet has been disconnected, after an earlier
\* attempt had been disconnected while Connecting.
C8_Witness ==
    /\ wlast.op = "disconnect"
    /\ wlast.pre.status = Connected
    /\ wallet = NotConnectedState
    /\ cancelled # {}

\* C9: the resolution, success or failure, of a provider request whose attempt
\* was cancelled by disconnect() during Connecting changes nothing: the state
\* stays NotConnected, or stays that of the newer attempt.
C9_StaleResolutionDiscarded ==
    (wlast.op \in {"success", "failure"} /\ wlast.token \in cancelled) =>
        wlast.post = wlast.pre

\* C9 witness: the request of a cancelled attempt resolved with success while
\* a newer attempt was Connecting.
C9_Witness ==
    /\ wlast.op = "success"
    /\ wlast.token \in cancelled
    /\ wlast.pre.status = Connecting
    /\ wallet.status = Connecting

\* C10: connect() called while Connecting or Connected changes nothing, raises
\* no fault and puts no provider request in flight.
C10_ConnectWhileBusyIsNoOp ==
    (wlast.op = "connect" /\ wlast.pre.status \in {Connecting, Connected}) =>
        /\ wlast.post = wlast.pre
        /\ wlast.issued = {}
        /\ ~wlast.fault

\* C10 witness: the connect prompt, rendered while Connecting, called
\* connect() with a provider request in flight.
C10_Witness ==
    /\ wlast.op = "connect"
    /\ wlast.via = "view"
    /\ wlast.pre.status = Connecting
    /\ inflight # {}

\* C11: the view reads only fields the wallet state has, and reads the
\* connected account and network only when the state is Connected.
C11_PayloadReadOnlyWhenConnected ==
    /\ wallet \in WalletState
    /\ ViewReads(wallet) \subseteq WalletFields(wallet)
    /\ wallet.status \in {NotConnected, Connecting} =>
           ViewReads(wallet) = {"status"}

\* C11 witness: the view renders a Connecting wallet that had been Connected
\* before, so an account and a network were once there to read.
C11_Witness ==
    /\ wallet.status = Connecting
    /\ connectedIn # ""
    /\ ViewReads(wallet) = {"status"}

\* C20: the view renders exactly one of the connect prompt, the pool and the
\* wrong-network notice: the prompt iff the state is not Connected, with its
\* connecting flag set iff Connecting; otherwise the wallet panel with the
\* pool iff supportedNetwork of the environment selected now equals the
\* connected network, and with the notice, expecting that network, iff not.
C20_ViewRendersOneBranch ==
    LET v == Rendered
        expected == supportedNetwork(ethereumEnvironment)
        isConnected == wallet.status = Connected
    IN  /\ v.connectWallet = ~isConnected
        /\ v.connecting = (wallet.status = Connecting)
        /\ v.walletPanel = isConnected
        /\ isConnected => v.account = wallet.connected.account
        /\ v.pool = (isConnected /\ expected = wallet.connected.network)
        /\ v.wrongNetwork = (isConnected /\ expected # wallet.connected.network)
        /\ v.wrongNetwork => v.expectedNetwork = expected
        /\ Cardinality({b \in {"connectWallet", "pool", "wrongNetwork"} :
                          v[b]}) = 1

\* C20 witness: the wallet connected on the network of the environment then
\* selected, the environment was changed afterwards, and the notice shows.
C20_Witness ==
    /\ wallet.status = Connected
    /\ connectedIn # ethereumEnvironment
    /\ supportedNetwork(connectedIn) = wallet.connected.network
    /\ Rendered.wrongNetwork
    /\ Rendered.expectedNetwork = supportedNetwork(ethereumEnvironment)

\* The finished call was toggle(r, cb) entered while no overlay was shown.
ToggleOnHidden == last.op = "toggle" /\ ~last.pre.show

\* C16: toggle(r, cb) called on Hidden leaves Shown(r) carrying cb, which is
\* the no-op callback when cb was omitted, and no onHide callback of any
\* opening, this one or an earlier one, is invoked during the call.
C16_ToggleOnHiddenShows ==
    ToggleOnHidden =>
        /\ last.post = Shown(last.route, last.onHide)
        /\ last.onHide.opening = last.calls1
        /\ last.onHide.fn = IF last.supplied THEN "caller" ELSE "doNothing"
        /\ \A n \in Openings : last.delta[n] = 0

\* C16 witness: toggle(r) without a callback has opened an overlay after an
\* earlier overlay's callback had been invoked.
C16_Witness ==
    /\ ToggleOnHidden
    /\ ~last.supplied
    /\ overlayStore = Shown(last.route, doNothing(last.calls1))
    /\ \E n \in Openings : invoked[n] > 0

\* The finished call was hide() on a shown overlay that returned, and during
\* it a toggle stored an overlay of a route other than the one being hidden.
HideReopened ==
    /\ HideOnShown
    /\ last.outcome = "returned"
    /\ \E n \in Openings :
          /\ n > last.calls0
          /\ n <= last.calls1
          /\ opened[n] \notin {"", last.pre.route}

\* C19: when the callback running inside hide() opens an overlay of another
\* route with toggle(r2, cb2), the hide() that returns leaves the overlay
\* Hidden and has not itself invoked the callback of any overlay opened
\* during the call.
C19_ReopenedOverlayIsCleared ==
    HideReopened =>
        /\ last.post = Hidden
        /\ \A n \in Openings :
              (n > last.calls0 /\ n <= last.calls1) => n \notin last.ran

\* C19 witness: the callback opened an overlay of another route with a
\* callback of its own, hide() has returned to the UI and nothing is shown.
C19_Witness ==
    /\ HideReopened
    /\ stack = <<>>
    /\ overlayStore = Hidden
    /\ \E n \in Openings :
          /\ n > last.calls0
          /\ n <= last.calls1
          /\ opened[n] \notin {"", last.pre.route}
          /\ invoked[n] = 0

\* The elements of a sequence.
Range(seq) == {seq[i] : i \in 1..Len(seq)}

\* C12: a subscriber registered at any point between toggle/hide calls has
\* been called by subscribe itself, and the first value it was called with is
\* the overlay state stored at that moment: no later change reaches it first.
C12_SubscriberGetsCurrentValueFirst ==
    \A s \in SubscriberIds :
        subscribedAt[s] # <<>> =>
            /\ Len(delivered[s]) >= 1
            /\ delivered[s][1] = subscribedAt[s][1]
            /\ delivered[s][1] \in ModalOverlay

\* C12 witness: a subscriber that subscribed while an overlay was shown was
\* called with that overlay and afterwards with a later state.
C12_Witness ==
    \E s \in SubscriberIds :
        /\ subscribedAt[s] # <<>>
        /\ subscribedAt[s][1].show
        /\ Len(delivered[s]) >= 2
        /\ delivered[s][1] = subscribedAt[s][1]
        /\ delivered[s][2] # delivered[s][1]

\* C13: a subscriber that has unsubscribed is not called again: it has been
\* called exactly as often as it had been when it unsubscribed, whatever
\* toggle and hide calls were made since.
C13_NoDeliveryAfterUnsubscribe ==
    \A s \in SubscriberIds :
        unsubscribedAt[s] # -1 =>
            /\ s \notin Range(subscribers)
            /\ Len(delivered[s]) = unsubscribedAt[s]

\* C13 witness: after s unsubscribed, a call changed the overlay state and a
\* subscriber registered later than s was notified of it.
C13_Witness ==
    \E s, t \in SubscriberIds :
        /\ s < t
        /\ unsubscribedAt[s] # -1
        /\ s \notin Range(last.subscribers)
        /\ t \in Range(last.subscribers)
        /\ last.news[t] # <<>>
        /\ last.post # last.pre

\* The frame has done `const modal = get(store)` and nothing since.
JustRead(frame) ==
    \/ frame.op = "hide" /\ frame.pc = "invoke"
    \/ frame.op = "toggle" /\ frame.pc \in {"hide", "set"}

\* C14: in every state the value read through the exported store is the
\* projection, which is the identity, of the private store's value, whether
\* or not the exported store has subscribers, and the `modal` that hide() or
\* toggle() has just read is the value the private store holds.
C14_ExportedStoreIsCurrent ==
    /\ GetStore = Projection(overlayStore)
    /\ Projection(overlayStore) = overlayStore
    /\ subscribers # <<>> => derivedValue = overlayStore
    /\ \A i \in 1..Len(stack) :
          JustRead(stack[i]) => stack[i].modal = overlayStore

\* C14 witness: the exported store has lost its last subscriber, the value it
\* held then is out of date, and a call made right after a toggle() has read
\* the overlay that toggle() stored.
C14_Witness ==
    /\ subscribers = <<>>
    /\ nextSubscriber > 0
    /\ derivedValue # overlayStore
    /\ stack # <<>>
    /\ JustRead(Top)
    /\ Top.modal = last.post
    /\ last.op = "toggle"
    /\ Top.modal.show

\* The frame is a toggle(r) entered while Shown(r2), r2 # r, was stored.
Replacing(frame) ==
    /\ frame.op = "toggle"
    /\ frame.pre.show
    /\ frame.pre.route # frame.route

\* C18: toggle(r) on Shown(r2), r # r2, changes the store in one step: until
\* its set the store holds Shown(r2) and nothing is delivered, the set stores
\* Shown(r), and each subscriber is called during the call at most once, with
\* Shown(r), and exactly once if the call returns.  Hidden is neither stored
\* nor delivered.
C18_ReplacementIsOneStep ==
    /\ \A i \in 1..Len(stack) :
          Replacing(stack[i]) =>
              /\ overlayStore.show
              /\ stack[i].pc \in {"read", "set", "threw"}
              /\ stack[i].pc \in {"read", "set"} =>
                     /\ overlayStore = stack[i].pre
                     /\ delivered = stack[i].del0
              /\ stack[i].pc = "threw" =>
                     overlayStore = Shown(stack[i].route, stack[i].onHide)
    /\ ToggleOnOtherRoute =>
          /\ last.post = Shown(last.route, last.onHide)
          /\ \A s \in Range(last.subscribers) :
                /\ last.news[s] \in {<<>>, <<last.post>>}
                /\ last.outcome = "returned" => last.news[s] = <<last.post>>

\* C18 witness: two subscribers that had been called with Shown(r2) were each
\* called next with Shown(r) by the toggle(r) that replaced it.
C18_Witness ==
    /\ ToggleOnOtherRoute
    /\ last.outcome = "returned"
    /\ stack = <<>>
    /\ overlayStore = last.post
    /\ Len(last.subscribers) >= 2
    /\ \A s \in Range(last.subscribers) :
          /\ Len(delivered[s]) >= 2
          /\ delivered[s][Len(delivered[s])] = last.post
          /\ delivered[s][Len(delivered[s]) - 1] = last.pre

\* The finished call ended in its overlayStore.set because a subscriber's
\* callback threw while it was being notified.
SubscriberThrew == last.op \in {"hide", "toggle"} /\ last.at = "threw"

\* C15: when a subscriber's callback throws during the notification made by
\* a toggle or hide call, the store holds the new state afterwards and every
\* subscriber registered at the time has been called with it.
C15_SubscriberFaultIsIsolated ==
    SubscriberThrew =>
        /\ last.post = IF last.op = "hide"
                       THEN Hidden ELSE Shown(last.route, last.onHide)
        /\ \A s \in Range(last.subscribers) :
              /\ last.news[s] # <<>>
              /\ last.news[s][Len(last.news[s])] = last.post

\* C17 as stated: while an onHide callback called by hide() is running, the
\* store holds the Shown value hide() read and no subscriber has been called
\* since the callback was entered.
C17_ShownWhileOnHideRuns ==
    \A i \in 2..Len(stack) :
        stack[i].op = "onHide" =>
            /\ overlayStore = stack[i - 1].modal
            /\ delivered = stack[i].del0

\* C17, amended: hide() calls the callback before its set.  While the
\* callback is running hide() waits at its set, and until the callback itself
\* calls hide() or toggle() the store holds the Shown value hide() read and no
\* subscriber is called; what is stored or delivered before the callback
\* returns comes from the calls the callback makes.
C17_HideSetsAfterOnHide ==
    \A i \in 2..Len(stack) :
        stack[i].op = "onHide" =>
            /\ stack[i - 1].op = "hide"
            /\ stack[i - 1].pc = "set"
            /\ stack[i - 1].modal.show
            /\ stack[i].onHide = stack[i - 1].modal.onHide
            /\ ~stack[i].called =>
                   /\ overlayStore = stack[i - 1].modal
                   /\ delivered = stack[i].del0

\* C17 witness: the callback of a shown overlay is running inside hide(), has
\* made no call, and the subscribers' latest value is still the shown overlay.
C17_Witness ==
    /\ stack # <<>>
    /\ Top.op = "onHide"
    /\ ~Top.called
    /\ overlayStore.show
    /\ Len(subscribers) >= 2
    /\ \A s \in Range(subscribers) :
          delivered[s][Len(delivered[s])] = overlayStore

=============================================================================
